---- MODULE Spec2Model ----
(***************************************************************************)
(* Type-erased container iteration (KDAB defensive publication, types.h   *)
(* as listed in type-erased-container-iteration.rst).                     *)
(*                                                                         *)
(* Addresses are records [kind, a, b]:                                     *)
(*   null            the null pointer                                      *)
(*   obj  a=c        the container object c                                *)
(*   elem a=c b=i    element i of container c (i = size is one-past-end)   *)
(*   box  a=k        heap cell k holding a copy of a standalone iterator   *)
(*   int  a=c b=i    the int that the Variant stored as element i of       *)
(*                   container c was made of                               *)
(* A native (typed) iterator of container c at index i is represented by   *)
(* the element address it designates.                                      *)
(*                                                                         *)
(* Containers outlive every Variant, SequentialIterable and cursor made    *)
(* from them, and callers respect the preconditions of std::advance and    *)
(* of dereferencing (no step outside [begin, end], no dereference of end). *)
(***************************************************************************)
EXTENDS Integers, Sequences, FiniteSets, TLC

\* ---------------------------------------------------------------- bounds
NumContainers == 2
MaxLen == 2
MaxCursors == 2
MaxCount == 2
NumThreads == 2

Containers == 1..NumContainers
Handles == 1..MaxCursors
Threads == 1..NumThreads

\* ------------------------------------------------------ static type facts
\* Container types: a contiguous container whose const_iterator is
\* `const value_type*`, a doubly linked list, a singly linked list.
ContainerTypes == {"array_int", "list_int", "forward_list_double"}

\* A container whose elements are themselves Variants
VariantContainerTypes == {"list_Variant"}

value_type(T) ==
    CASE T = "array_int" -> "int"
      [] T = "list_int" -> "int"
      [] T = "forward_list_double" -> "double"
      [] T = "list_Variant" -> "Variant"

\* typeid(X).hash_code()
hash_code(X) ==
    CASE X = "void" -> 1
      [] X = "int" -> 2
      [] X = "double" -> 3
      [] X = "Variant" -> 4
      [] X = "array_int" -> 11
      [] X = "list_int" -> 12
      [] X = "forward_list_double" -> 13
      [] X = "list_Variant" -> 14

\* std::iterator_traits<T::const_iterator>::iterator_category
iterator_category(T) ==
    CASE T = "array_int" -> "random_access"
      [] T = "list_int" -> "bidirectional"
      [] T = "forward_list_double" -> "forward"
      [] T = "list_Variant" -> "bidirectional"

\* Which IteratorAPI specialisation T::const_iterator selects.
IsPointerIterator(T) == T = "array_int"

ForwardCapability == 1
BiDirectionalCapability == 2
RandomAccessCapability == 4

\* CapabilitiesImpl<T, Category>::IteratorCapabilities
\* (single_bit: each specialisation names its own capability only)
CapabilitiesImpl_single_bit(T) ==
    CASE iterator_category(T) = "forward" -> ForwardCapability
      [] iterator_category(T) = "bidirectional" -> BiDirectionalCapability
      [] iterator_category(T) = "random_access" -> RandomAccessCapability

CapabilitiesImpl(T) ==
    CASE iterator_category(T) = "forward" -> ForwardCapability
      [] iterator_category(T) = "bidirectional" ->
            BiDirectionalCapability + ForwardCapability
      [] iterator_category(T) = "random_access" ->
            RandomAccessCapability + BiDirectionalCapability + ForwardCapability

\* mask & bit, for a single-bit value `bit`
BitAnd(mask, bit) == IF (mask \div bit) % 2 = 1 THEN bit ELSE 0

\* ------------------------------------------------------------- addresses
NullPtr == [kind |-> "null", a |-> 0, b |-> 0]
ObjAddr(c) == [kind |-> "obj", a |-> c, b |-> 0]
ElemAddr(c, i) == [kind |-> "elem", a |-> c, b |-> i]
BoxAddr(k) == [kind |-> "box", a |-> k, b |-> 0]

VARIABLES
    containers,         \* the typed containers of the program: [T, n]
    converterRegistry,  \* std::map<size_t, SequentialIterableImplementation>
    var,                \* the program's Variant (VariantData), or NoVariant
    iter,               \* the SequentialIterable at hand (its m_impl)
    iterSrc,            \* history: the Variant `iter` was requested from
    cursors,            \* const_iterator objects: [live, m_impl, ref]
    boxes,              \* heap: boxed standalone iterators [it, freed]
    refs,               \* heap: std::atomic<int> counters [count, freed]
    link,               \* history: the latest binding of one cursor to another
    walk,               \* history: the latest begin()/end() and the k steps since
    ret,                \* the last call and what it returned
    aborted,            \* an assert failed: the process is gone
    threads             \* the threads the program started: [pc, it, src, before]

vars == <<containers, converterRegistry, var, iter, iterSrc, cursors, boxes,
          refs, link, walk, ret, aborted, threads>>

\* ------------------------------------------------------------ VariantData
VariantData(metaTypeId_, data_) == [metaTypeId |-> metaTypeId_, data |-> data_]
NoVariant == VariantData(0, NullPtr)

\* ------------------------------------- SequentialIterableImplementation
\* T stands for the nine function pointers, all instantiated for type T
\* ("" : null function pointers).
ImplOf(T, p) ==
    [_iterable |-> ObjAddr(p),
     _iterator |-> NullPtr,
     _metaType_id |-> hash_code(value_type(T)),
     _iteratorCapabilities |-> CapabilitiesImpl(T),
     T |-> T]

ImplDefault ==
    [_iterable |-> NullPtr,
     _iterator |-> NullPtr,
     _metaType_id |-> hash_code("void"),
     _iteratorCapabilities |-> 0,
     T |-> ""]

\* std::distance(first, last) over native iterators of one container
RECURSIVE distance(_, _)
distance(first, last) ==
    IF first = last THEN 0
    ELSE 1 + distance(ElemAddr(first.a, first.b + 1), last)

container_begin(c) == ElemAddr(c, 0)
container_end(c) == ElemAddr(c, containers[c].n)

ContainerAPI_size(c) == distance(container_begin(c), container_end(c))

\* SequentialIterableImplementation::size(); the assert is the caller's guard
Impl_size(impl) == ContainerAPI_size(impl._iterable.a)

\* SequentialIterable::canReverseIterate()
\* (random: tests the RandomAccess bit instead)
canReverseIterate_random(impl) ==
    BitAnd(impl._iteratorCapabilities, RandomAccessCapability) # 0

canReverseIterate(impl) ==
    BitAnd(impl._iteratorCapabilities, BiDirectionalCapability) # 0

\* --------------------------------------------------------------- registry
\* std::map::insert: keeps the existing mapping when the key is present
\* (overwrite: what m[k] = v would do)
map_insert_overwrite(m, k, v) ==
    [x \in DOMAIN m \cup {k} |-> IF x = k THEN v ELSE m[x]]

\* (missing: the constructor does not register)
map_insert_missing(m, k, v) == m

map_insert(m, k, v) ==
    IF k \in DOMAIN m THEN m
    ELSE [x \in DOMAIN m \cup {k} |-> IF x = k THEN v ELSE m[x]]

EmptyMap == [x \in {} |-> ImplDefault]

\* Cursor objects are numbered in the order the program constructs them:
\* NoCursor is an object not constructed yet, GoneCursor a destroyed one.
NoCursor == [live |-> FALSE, gone |-> FALSE, m_impl |-> ImplDefault, ref |-> 0]
GoneCursor == [live |-> FALSE, gone |-> TRUE, m_impl |-> ImplDefault, ref |-> 0]
NoLink == [kind |-> "none", a |-> 0, b |-> 0]
NoWalk == [h |-> 0, from |-> "none", n |-> 0]
\* a history that a specification does not record
LinkOff == [kind |-> "off", a |-> 0, b |-> 0]
WalkOff == [h |-> 0, from |-> "off", n |-> 0]
NoRet == [op |-> "none", h |-> 0, val |-> 0]
\* a thread not started: `it` is the const_iterator object local to it
NoThread == [pc |-> "idle", it |-> NoCursor, src |-> 0, before |-> 0]

Init ==
    /\ containers \in [Containers -> [T : ContainerTypes, n : 0..MaxLen]]
    /\ converterRegistry = EmptyMap
    /\ var = NoVariant
    /\ iter = ImplDefault
    /\ iterSrc = NoVariant
    /\ cursors = [h \in Handles |-> NoCursor]
    /\ boxes = <<>>
    /\ refs = <<>>
    /\ link = NoLink
    /\ walk = NoWalk
    /\ ret = NoRet
    /\ aborted = FALSE
    /\ threads = [t \in Threads |-> NoThread]

\* Variant::Variant(const T& t) for the container c
VariantCtor(c) ==
    /\ ~aborted
    /\ var' = VariantData(hash_code(containers[c].T), ObjAddr(c))
    /\ converterRegistry' =
          map_insert(converterRegistry, hash_code(containers[c].T),
                     ImplOf(containers[c].T, c))
    /\ ret' = [op |-> "Variant", h |-> 0, val |-> c]
    /\ UNCHANGED <<threads, containers, iter, iterSrc, cursors, boxes, refs, link,
                   walk, aborted>>

\* std::map::operator[]: default-constructs the mapped value when absent
map_subscript(m, k) ==
    IF k \in DOMAIN m THEN m
    ELSE [x \in DOMAIN m \cup {k} |-> IF x = k THEN ImplDefault ELSE m[x]]

\* the assert of Variant::as<SequentialIterable>()
\* (disabled: the lookup is not guarded)
as_assert_disabled(v) == TRUE

as_assert(v) == v.metaTypeId \in DOMAIN converterRegistry

\* The Variant as<SequentialIterable>() is called on: the temporary that
\* operator* has just returned, (*it).as<SequentialIterable>(), else `var`
Operand == IF ret.op = "deref" THEN ret.val ELSE var

\* Variant::as<SequentialIterable>()
AsSequentialIterable ==
    /\ ~aborted
    /\ Operand # NoVariant
    /\ ret' = [op |-> "as", h |-> 0, val |-> 0]
    /\ IF as_assert(Operand)
       THEN /\ converterRegistry' =
                  map_subscript(converterRegistry, Operand.metaTypeId)
            /\ iter' = converterRegistry'[Operand.metaTypeId]
            /\ iterSrc' = Operand
            /\ UNCHANGED aborted
       ELSE /\ aborted' = TRUE
            /\ UNCHANGED <<converterRegistry, iter, iterSrc>>
    /\ UNCHANGED <<threads, containers, var, cursors, boxes, refs, link, walk>>

\* SequentialIterable::size()
Size ==
    /\ ~aborted
    /\ iter._iterable # NullPtr
    /\ ret' = [op |-> "size", h |-> 0, val |-> Impl_size(iter)]
    /\ UNCHANGED <<threads, containers, converterRegistry, var, iter, iterSrc,
                   cursors, boxes, refs, link, walk, aborted>>

\* SequentialIterable::canReverseIterate()
CanReverseIterate ==
    /\ ~aborted
    /\ iter._iterable # NullPtr
    /\ ret' = [op |-> "canReverseIterate", h |-> 0,
               val |-> canReverseIterate(iter)]
    /\ UNCHANGED <<threads, containers, converterRegistry, var, iter, iterSrc,
                   cursors, boxes, refs, link, walk, aborted>>

\* ------------------------------------------------------------ IteratorAPI
\* Every operation takes and returns the heap of boxed iterators; results
\* are records [slot, boxes] where slot is the new value of the void*.

\* a boxed iterator: freed once destroy has deleted it, again if destroy was
\* invoked on it after that
NewBox(it) == [it |-> it, freed |-> FALSE, again |-> FALSE]

\* IteratorAPI::assign(void **ptr, const_iterator iterator)
\* (static: the copy is kept in one static iterator instead of a new one)
IteratorAPI_assign_static(T, iterator, bx) ==
    IF IsPointerIterator(T)
    THEN [slot |-> iterator, boxes |-> bx]
    ELSE [slot |-> BoxAddr(1),
          boxes |-> IF bx = <<>> THEN <<NewBox(iterator)>>
                    ELSE [bx EXCEPT ![1].it = iterator]]

IteratorAPI_assign(T, iterator, bx) ==
    IF IsPointerIterator(T)
    THEN [slot |-> iterator, boxes |-> bx]
    ELSE [slot |-> BoxAddr(Len(bx) + 1), boxes |-> Append(bx, NewBox(iterator))]

\* IteratorAPI::assign(void **ptr, void * const * src)
\* (shared: the boxed iterator's address is copied, not the iterator)
IteratorAPI_copy_shared(T, src, bx) == [slot |-> src, boxes |-> bx]

IteratorAPI_copy(T, src, bx) ==
    IF IsPointerIterator(T)
    THEN [slot |-> src, boxes |-> bx]
    ELSE [slot |-> BoxAddr(Len(bx) + 1),
          boxes |-> Append(bx, NewBox(bx[src.a].it))]

\* std::advance on a native iterator
\* (forward_only: a loop of ++ that never steps back)
std_advance_forward_only(it, step) ==
    IF step < 0 THEN it ELSE ElemAddr(it.a, it.b + step)

std_advance(it, step) == ElemAddr(it.a, it.b + step)

\* IteratorAPI::advance(void **iterator, int step)
\* (by_value: the boxed iterator is advanced in a local copy, not in place)
IteratorAPI_advance_by_value(T, slot, step, bx) ==
    IF IsPointerIterator(T)
    THEN [slot |-> [kind |-> "elem", a |-> slot.a, b |-> slot.b + step],
          boxes |-> bx]
    ELSE [slot |-> slot, boxes |-> bx]

IteratorAPI_advance(T, slot, step, bx) ==
    IF IsPointerIterator(T)
    THEN [slot |-> std_advance(slot, step), boxes |-> bx]
    ELSE [slot |-> slot,
          boxes |-> [bx EXCEPT ![slot.a].it = std_advance(@, step)]]

\* IteratorAPI::destroy(void **ptr)
IteratorAPI_destroy(T, slot, bx) ==
    IF IsPointerIterator(T) THEN bx
    ELSE [bx EXCEPT ![slot.a].freed = TRUE, ![slot.a].again = bx[slot.a].freed]

\* IteratorAPI::getData(void * const *iterator)
\* (slot: the void* itself is returned for a boxed iterator too)
IteratorAPI_getData_slot(T, slot, bx) == slot

IteratorAPI_getData(T, slot, bx) ==
    IF IsPointerIterator(T) THEN slot ELSE bx[slot.a].it

\* IteratorAPI::equal(void * const *it, void * const *other)
\* (slots: the two void* are compared, not the iterators they point to)
IteratorAPI_equal_slots(T, it, other, bx) == it = other

IteratorAPI_equal(T, it, other, bx) ==
    IF IsPointerIterator(T) THEN it = other
    ELSE bx[it.a].it = bx[other.a].it

\* ------------------------------- SequentialIterableImplementation methods
\* moveToBegin() / moveToEnd(): results are [impl, boxes]
Impl_moveToBegin(impl, bx) ==
    LET r == IteratorAPI_assign(impl.T, container_begin(impl._iterable.a), bx)
    IN [impl |-> [impl EXCEPT !._iterator = r.slot], boxes |-> r.boxes]

Impl_moveToEnd(impl, bx) ==
    LET r == IteratorAPI_assign(impl.T, container_end(impl._iterable.a), bx)
    IN [impl |-> [impl EXCEPT !._iterator = r.slot], boxes |-> r.boxes]

\* equal(other)
Impl_equal(impl, other, bx) ==
    IteratorAPI_equal(impl.T, impl._iterator, other._iterator, bx)

\* the assert of advance(int i)
\* (disabled: advance without the capability test)
advance_assert_disabled(impl, i) == TRUE

advance_assert(impl, i) ==
    i > 0 \/ BitAnd(impl._iteratorCapabilities, BiDirectionalCapability) # 0

\* advance(int i) past its assert
Impl_advance(impl, i, bx) ==
    LET r == IteratorAPI_advance(impl.T, impl._iterator, i, bx)
    IN [impl |-> [impl EXCEPT !._iterator = r.slot], boxes |-> r.boxes]

\* getCurrent()
Impl_getCurrent(impl, bx) ==
    VariantData(impl._metaType_id, IteratorAPI_getData(impl.T, impl._iterator, bx))

\* destroyIter()
Impl_destroyIter(impl, bx) == IteratorAPI_destroy(impl.T, impl._iterator, bx)

\* copy(other) on a default-constructed implementation
Impl_copy(other, bx) ==
    LET r == IteratorAPI_copy(other.T, other._iterator, bx)
    IN [impl |-> [other EXCEPT !._iterator = r.slot], boxes |-> r.boxes]

\* The native iterator a cursor currently designates, and its index
NativeIt(cur) == IteratorAPI_getData(cur.m_impl.T, cur.m_impl._iterator, boxes)
Pos(cur) == NativeIt(cur).b
SizeOf(impl) == containers[impl._iterable.a].n

\* Cursors that read and write the same iterator cell as cursor h
SharesCell(h, g) ==
    /\ cursors[h].live /\ cursors[g].live
    /\ cursors[h].m_impl._iterator.kind = "box"
    /\ cursors[h].m_impl._iterator = cursors[g].m_impl._iterator

SameIterable(h, g) ==
    /\ cursors[h].live /\ cursors[g].live
    /\ cursors[h].m_impl._iterable = cursors[g].m_impl._iterable
    /\ cursors[h].m_impl.T = cursors[g].m_impl.T

\* h is the next cursor object to be constructed
FreeSlot(h) ==
    /\ cursors[h] = NoCursor
    /\ \A x \in Handles : x < h => cursors[x] # NoCursor

\* `ret` names a call in full (operation, cursor, argument) when its assert
\* fails; a call that mutates and returns leaves no return value behind
FailedCall(impl, opname, h, step) ==
    IF advance_assert(impl, step) THEN NoRet
    ELSE [op |-> opname, h |-> h, val |-> step]

\* new std::atomic<int>{} followed by the constructor's ref->fetch_add(1)
\* (uncounted: the constructor does not count its own handle)
NewRef_uncounted == [count |-> 0, freed |-> FALSE]

NewRef == [count |-> 1, freed |-> FALSE]
\* std::atomic<int>::fetch_add(1) / fetch_sub(1): one indivisible step
\* (missing: the copy is not counted)
fetch_add_missing(rf, r) == rf

fetch_add(rf, r) == [rf EXCEPT ![r].count = @ + 1]
fetch_sub(rf, r) == [rf EXCEPT ![r].count = @ - 1]

\* history bookkeeping.  `link` is the latest copy-construction, assignment
\* or value copy [kind, a, b] (a made from / assigned from b) while both
\* cursors exist and neither is bound anew.  `walk` is the latest begin() or
\* end() cursor h and the number n of ++ (after begin) or -- (after end)
\* applied to it, while nothing else has moved or rebound it.
KeepLink(l) == IF link = LinkOff THEN link ELSE l
KeepWalk(w) == IF walk = WalkOff THEN walk ELSE w

Gone(h) == IF link.a = h \/ link.b = h THEN NoLink ELSE link

Moved(h, w) ==
    IF walk.h = h THEN w
    ELSE IF walk.h # 0 /\ SharesCell(h, walk.h) THEN NoWalk
    ELSE walk

\* --------------------------------------------- SequentialIterable / cursor
\* SequentialIterable::begin(): a fresh counter (0, then fetch_add in the
\* constructor), moveToBegin, return by value.  With or without elision of
\* the returned copy the counter is 1 afterwards (the temporary's
\* destructor sees 2).
Begin(h) ==
    /\ ~aborted
    /\ iter._iterable # NullPtr
    /\ FreeSlot(h)
    /\ LET r == Impl_moveToBegin(iter, boxes)
       IN /\ cursors' = [cursors EXCEPT
                ![h] = [live |-> TRUE, gone |-> FALSE, m_impl |-> r.impl,
                        ref |-> Len(refs) + 1]]
          /\ boxes' = r.boxes
    /\ refs' = Append(refs, NewRef)
    /\ link' = link
    /\ walk' = KeepWalk([h |-> h, from |-> "begin", n |-> 0])
    /\ ret' = NoRet
    /\ UNCHANGED <<threads, containers, converterRegistry, var, iter, iterSrc, aborted>>

\* SequentialIterable::end()
End(h) ==
    /\ ~aborted
    /\ iter._iterable # NullPtr
    /\ FreeSlot(h)
    /\ LET r == Impl_moveToEnd(iter, boxes)
       IN /\ cursors' = [cursors EXCEPT
                ![h] = [live |-> TRUE, gone |-> FALSE, m_impl |-> r.impl,
                        ref |-> Len(refs) + 1]]
          /\ boxes' = r.boxes
    /\ refs' = Append(refs, NewRef)
    /\ link' = link
    /\ walk' = KeepWalk([h |-> h, from |-> "end", n |-> 0])
    /\ ret' = NoRet
    /\ UNCHANGED <<threads, containers, converterRegistry, var, iter, iterSrc, aborted>>

\* the destructor's test !ref->fetch_sub(1), on the value fetch_sub returns
\* (not_negated: if (ref->fetch_sub(1)))
no_handle_left_not_negated(previous) == previous # 0

no_handle_left(previous) == previous = 0

\* const_iterator::~const_iterator()
Dtor(h) ==
    /\ ~aborted
    /\ cursors[h].live
    /\ LET r == cursors[h].ref
           previous == refs[r].count
       IN IF no_handle_left(previous)
          THEN /\ boxes' = Impl_destroyIter(cursors[h].m_impl, boxes)
               /\ refs' = [fetch_sub(refs, r) EXCEPT ![r].freed = TRUE]
          ELSE /\ refs' = fetch_sub(refs, r)
               /\ UNCHANGED boxes
    /\ cursors' = [cursors EXCEPT ![h] = GoneCursor]
    /\ link' = Gone(h)
    /\ walk' = IF walk.h = h THEN NoWalk ELSE walk
    /\ ret' = NoRet
    /\ UNCHANGED <<threads, containers, converterRegistry, var, iter, iterSrc, aborted>>

\* const_iterator::const_iterator(const const_iterator &other): h from g
CopyCtor(h, g) ==
    /\ ~aborted
    /\ FreeSlot(h)
    /\ cursors[g].live
    /\ refs[cursors[g].ref].count < MaxCount
    /\ cursors' = [cursors EXCEPT ![h] = cursors[g]]
    /\ refs' = fetch_add(refs, cursors[g].ref)
    /\ link' = KeepLink([kind |-> "copy", a |-> h, b |-> g])
    /\ walk' = walk
    /\ ret' = NoRet
    /\ UNCHANGED <<threads, containers, converterRegistry, var, iter, iterSrc, boxes,
                   aborted>>

\* the rebinding of operator=: m_impl = other.m_impl; ref = other.ref
\* (ref_only: only the counter is taken over)
rebind_ref_only(cur, other) == [cur EXCEPT !.ref = other.ref]

rebind(cur, other) == other

\* const_iterator::operator=(const const_iterator &other): h = g
Assign(h, g) ==
    /\ ~aborted
    /\ SameIterable(h, g)
    /\ LET eq == Impl_equal(cursors[h].m_impl, cursors[g].m_impl, boxes)
           cur == IF ~eq THEN rebind(cursors[h], cursors[g]) ELSE cursors[h]
       IN /\ refs[cur.ref].count < MaxCount
          /\ cursors' = [cursors EXCEPT ![h] = cur]
          /\ refs' = fetch_add(refs, cur.ref)
          /\ link' = KeepLink([kind |-> "assign", a |-> h, b |-> g])
    /\ walk' = IF walk.h = h THEN NoWalk ELSE walk
    /\ ret' = NoRet
    /\ UNCHANGED <<threads, containers, converterRegistry, var, iter, iterSrc, boxes,
                   aborted>>

\* the Variant stored as the container element at addr (elements of a
\* VariantContainerTypes container): Variant(VariantData(typeid(int), &x))
VariantAt(addr) ==
    VariantData(hash_code("int"), [kind |-> "int", a |-> addr.a, b |-> addr.b])

\* const_iterator::operator*()
deref(cur, bx) ==
    LET d == Impl_getCurrent(cur.m_impl, bx)
    IN IF d.metaTypeId = hash_code("Variant") THEN VariantAt(d.data) ELSE d

Deref(h) ==
    /\ ~aborted
    /\ cursors[h].live
    /\ Pos(cursors[h]) < SizeOf(cursors[h].m_impl)
    /\ ret' = [op |-> "deref", h |-> 0, val |-> deref(cursors[h], boxes)]
    /\ UNCHANGED <<threads, containers, converterRegistry, var, iter, iterSrc, cursors,
                   boxes, refs, link, walk, aborted>>

\* const_iterator::operator==(other): h == g
Eq(h, g) ==
    /\ ~aborted
    /\ SameIterable(h, g)
    /\ ret' = [op |-> "eq", h |-> 0,
               val |-> Impl_equal(cursors[h].m_impl, cursors[g].m_impl, boxes)]
    /\ UNCHANGED <<threads, containers, converterRegistry, var, iter, iterSrc, cursors,
                   boxes, refs, link, walk, aborted>>

\* const_iterator::operator!=(other): h != g
Ne(h, g) ==
    /\ ~aborted
    /\ SameIterable(h, g)
    /\ ret' = [op |-> "ne", h |-> 0,
               val |-> ~Impl_equal(cursors[h].m_impl, cursors[g].m_impl, boxes)]
    /\ UNCHANGED <<threads, containers, converterRegistry, var, iter, iterSrc, cursors,
                   boxes, refs, link, walk, aborted>>

\* std::advance stays inside [begin, end]
InRange(cur, step) ==
    /\ Pos(cur) + step >= 0
    /\ Pos(cur) + step <= SizeOf(cur.m_impl)

\* m_impl.advance(step) on cursor h, in place; w is the new walk of h
AdvanceInPlace(h, step, w, opname) ==
    /\ ~aborted
    /\ cursors[h].live
    /\ ret' = FailedCall(cursors[h].m_impl, opname, h, step)
    /\ IF advance_assert(cursors[h].m_impl, step)
       THEN /\ InRange(cursors[h], step)
            /\ LET r == Impl_advance(cursors[h].m_impl, step, boxes)
               IN /\ cursors' = [cursors EXCEPT ![h].m_impl = r.impl]
                  /\ boxes' = r.boxes
            /\ walk' = Moved(h, w)
            /\ UNCHANGED aborted
       ELSE /\ aborted' = TRUE
            /\ UNCHANGED <<cursors, boxes, walk>>
    /\ UNCHANGED <<threads, containers, converterRegistry, var, iter, iterSrc, refs,
                   link>>

\* const_iterator::operator++()
Incr(h) ==
    AdvanceInPlace(h, 1,
        IF walk.from = "begin" THEN [walk EXCEPT !.n = @ + 1] ELSE NoWalk,
        "incr")

\* const_iterator::operator--()
Decr(h) ==
    AdvanceInPlace(h, -1,
        IF walk.from = "end" THEN [walk EXCEPT !.n = @ + 1] ELSE NoWalk,
        "decr")

\* const_iterator::operator+=(int j)
PlusEq(h, j) == AdvanceInPlace(h, j, NoWalk, "pluseq")

\* const_iterator::operator-=(int j)
MinusEq(h, j) == AdvanceInPlace(h, -j, NoWalk, "minuseq")

\* Post-increment / post-decrement of h, the returned cursor lands in g:
\* impl.copy(m_impl); m_impl.advance(step); const_iterator(impl, new counter)
PostStep(h, g, step, opname) ==
    /\ ~aborted
    /\ cursors[h].live
    /\ FreeSlot(g)
    /\ ret' = FailedCall(cursors[h].m_impl, opname, h, step)
    /\ LET c == Impl_copy(cursors[h].m_impl, boxes)
       IN IF advance_assert(cursors[h].m_impl, step)
          THEN /\ InRange(cursors[h], step)
               /\ LET r == Impl_advance(cursors[h].m_impl, step, c.boxes)
                  IN /\ cursors' = [cursors EXCEPT
                            ![h].m_impl = r.impl,
                            ![g] = [live |-> TRUE, gone |-> FALSE,
                                    m_impl |-> c.impl, ref |-> Len(refs) + 1]]
                     /\ boxes' = r.boxes
               /\ refs' = Append(refs, NewRef)
               /\ link' = KeepLink([kind |-> "value", a |-> g, b |-> h])
               /\ walk' = Moved(h, NoWalk)
               /\ UNCHANGED aborted
          ELSE /\ aborted' = TRUE
               /\ boxes' = c.boxes
               /\ UNCHANGED <<cursors, refs, link, walk>>
    /\ UNCHANGED <<threads, containers, converterRegistry, var, iter, iterSrc>>

\* const_iterator::operator++(int)
PostIncr(h, g) == PostStep(h, g, 1, "postincr")

\* const_iterator::operator--(int)
PostDecr(h, g) == PostStep(h, g, -1, "postdecr")

\* h + j / h - j, the returned cursor lands in g:
\* impl.copy(m_impl); impl.advance(step); const_iterator(impl, new counter)
Offset(h, g, step, opname) ==
    /\ ~aborted
    /\ cursors[h].live
    /\ FreeSlot(g)
    /\ ret' = FailedCall(cursors[h].m_impl, opname, h, step)
    /\ LET c == Impl_copy(cursors[h].m_impl, boxes)
       IN IF advance_assert(c.impl, step)
          THEN /\ InRange(cursors[h], step)
               /\ LET r == Impl_advance(c.impl, step, c.boxes)
                  IN /\ cursors' = [cursors EXCEPT
                            ![g] = [live |-> TRUE, gone |-> FALSE,
                                    m_impl |-> r.impl, ref |-> Len(refs) + 1]]
                     /\ boxes' = r.boxes
               /\ refs' = Append(refs, NewRef)
               /\ link' = KeepLink([kind |-> "value", a |-> g, b |-> h])
               /\ walk' = walk
               /\ UNCHANGED aborted
          ELSE /\ aborted' = TRUE
               /\ boxes' = c.boxes
               /\ UNCHANGED <<cursors, refs, link, walk>>
    /\ UNCHANGED <<threads, containers, converterRegistry, var, iter, iterSrc>>

\* const_iterator::operator+(int j)
Plus(h, g, j) == Offset(h, g, j, "plus")

\* const_iterator::operator-(int j)
Minus(h, g, j) == Offset(h, g, -j, "minus")

MaxStep == 1
Steps == (-MaxStep)..MaxStep

\* ------------------------------------------------------- specifications
\* Spec: wrapping containers and asking for iterables (no cursor is made).
Next ==
    \/ \E c \in Containers : VariantCtor(c)
    \/ AsSequentialIterable
    \/ Size
    \/ CanReverseIterate

Spec == Init /\ [][Next]_vars

\* The cursor specifications start where the program has wrapped one
\* container and obtained its SequentialIterable (VariantCtor then
\* AsSequentialIterable from Init); l and w are the histories recorded.
InitTyped(Types, l, w) ==
    /\ \E T \in Types, n \in 0..MaxLen :
          containers = [c \in Containers |-> [T |-> T, n |-> n]]
    /\ converterRegistry =
          map_insert(EmptyMap, hash_code(containers[1].T),
                     ImplOf(containers[1].T, 1))
    /\ var = VariantData(hash_code(containers[1].T), ObjAddr(1))
    /\ iter = converterRegistry[var.metaTypeId]
    /\ iterSrc = var
    /\ cursors = [h \in Handles |-> NoCursor]
    /\ boxes = <<>>
    /\ refs = <<>>
    /\ link = l
    /\ walk = w
    /\ ret = NoRet
    /\ aborted = FALSE
    /\ threads = [t \in Threads |-> NoThread]

InitIterable(l, w) == InitTyped(ContainerTypes, l, w)

\* SpecCursor: cursors are obtained from begin() / end() or copy-constructed,
\* moved in place, read and compared, and destroyed.
InitCursor == InitIterable(LinkOff, NoWalk)

NextCursor ==
    \/ AsSequentialIterable
    \/ \E h \in Handles : Begin(h)
    \/ \E h \in Handles : End(h)
    \/ \E h \in Handles : Dtor(h)
    \/ \E h, g \in Handles : CopyCtor(h, g)
    \/ \E h \in Handles : Deref(h)
    \/ \E h, g \in Handles : Eq(h, g)
    \/ \E h, g \in Handles : Ne(h, g)
    \/ \E h \in Handles : Incr(h)
    \/ \E h \in Handles : Decr(h)
    \/ \E h \in Handles, j \in Steps : PlusEq(h, j)
    \/ \E h \in Handles, j \in Steps : MinusEq(h, j)

SpecCursor == InitCursor /\ [][NextCursor]_vars

\* SpecCopy: cursors are also made from one another (copy construction,
\* assignment, the operators that return a cursor by value).
InitCopy == InitIterable(NoLink, WalkOff)

NextCopy ==
    \/ \E h \in Handles : Begin(h)
    \/ \E h \in Handles : End(h)
    \/ \E h \in Handles : Dtor(h)
    \/ \E h, g \in Handles : CopyCtor(h, g)
    \/ \E h, g \in Handles : Assign(h, g)
    \/ \E h \in Handles : Incr(h)
    \/ \E h \in Handles : Decr(h)
    \/ \E h, g \in Handles : PostIncr(h, g)
    \/ \E h, g \in Handles : PostDecr(h, g)
    \/ \E h, g \in Handles, j \in Steps : Plus(h, g, j)
    \/ \E h, g \in Handles, j \in Steps : Minus(h, g, j)

SpecCopy == InitCopy /\ [][NextCopy]_vars

\* SpecStep: cursors are obtained from begin() / end(), moved by every
\* stepping operator (in place or returning a cursor by value) and destroyed.
InitStep == InitIterable(NoLink, WalkOff)

NextStep ==
    \/ \E h \in Handles : Begin(h)
    \/ \E h \in Handles : End(h)
    \/ \E h \in Handles : Dtor(h)
    \/ \E h \in Handles : Incr(h)
    \/ \E h \in Handles : Decr(h)
    \/ \E h \in Handles, j \in Steps : PlusEq(h, j)
    \/ \E h \in Handles, j \in Steps : MinusEq(h, j)
    \/ \E h, g \in Handles : PostIncr(h, g)
    \/ \E h, g \in Handles : PostDecr(h, g)
    \/ \E h, g \in Handles, j \in Steps : Plus(h, g, j)
    \/ \E h, g \in Handles, j \in Steps : Minus(h, g, j)

SpecStep == InitStep /\ [][NextStep]_vars

\* SpecDeref: as SpecCursor without comparisons, the wrapped container may
\* also be one whose elements are Variants.
InitDeref ==
    InitTyped(ContainerTypes \cup VariantContainerTypes, LinkOff, WalkOff)

NextDeref ==
    \/ \E h \in Handles : Begin(h)
    \/ \E h \in Handles : End(h)
    \/ \E h \in Handles : Dtor(h)
    \/ \E h, g \in Handles : CopyCtor(h, g)
    \/ \E h \in Handles : Deref(h)
    \/ \E h \in Handles : Incr(h)
    \/ \E h \in Handles : Decr(h)

SpecDeref == InitDeref /\ [][NextDeref]_vars

\* SpecRead: cursors are made, copied and stepped forward, and the program
\* queries the iterable and its cursors.
InitRead == InitIterable(LinkOff, WalkOff)

NextRead ==
    \/ Size
    \/ CanReverseIterate
    \/ \E h \in Handles : Begin(h)
    \/ \E h \in Handles : End(h)
    \/ \E h, g \in Handles : CopyCtor(h, g)
    \/ \E h \in Handles : Incr(h)
    \/ \E h \in Handles : Deref(h)
    \/ \E h, g \in Handles : Eq(h, g)
    \/ \E h, g \in Handles : Ne(h, g)

SpecRead == InitRead /\ [][NextRead]_vars

\* SpecAssign: cursors are obtained from begin() / end(), stepped, assigned
\* to one another and destroyed.
InitAssign == InitIterable(NoLink, WalkOff)

NextAssign ==
    \/ \E h \in Handles : Begin(h)
    \/ \E h \in Handles : End(h)
    \/ \E h \in Handles : Dtor(h)
    \/ \E h, g \in Handles : Assign(h, g)
    \/ \E h \in Handles : Incr(h)
    \/ \E h \in Handles : Decr(h)

SpecAssign == InitAssign /\ [][NextAssign]_vars

\* ------------------------------------------------------------- threads
\* No thread has been started
Unspawned == \A t \in Threads : threads[t].pc = "idle"

\* The program starts its threads and waits for them; each thread is handed
\* cursor h:  std::thread([&h]{ const_iterator it(h); })
Spawn(h) ==
    /\ ~aborted
    /\ Unspawned
    /\ cursors[h].live
    /\ threads' = [t \in Threads |->
                      [pc |-> "bind", it |-> NoCursor, src |-> h,
                       before |-> refs[cursors[h].ref].count]]
    /\ UNCHANGED <<containers, converterRegistry, var, iter, iterSrc, cursors,
                   boxes, refs, link, walk, ret, aborted>>

\* thread t, copy constructor, member initialisers:
\* m_impl(other.m_impl), ref(other.ref)
ThreadBind(t) ==
    /\ threads[t].pc = "bind"
    /\ threads' = [threads EXCEPT ![t].pc = "count",
                                  ![t].it = cursors[threads[t].src]]
    /\ UNCHANGED <<containers, converterRegistry, var, iter, iterSrc, cursors,
                   boxes, refs, link, walk, ret, aborted>>

\* thread t, copy constructor, body: ref->fetch_add(1)
ThreadCount(t) ==
    /\ threads[t].pc = "count"
    /\ refs' = fetch_add(refs, threads[t].it.ref)
    /\ threads' = [threads EXCEPT ![t].pc = "drop"]
    /\ UNCHANGED <<containers, converterRegistry, var, iter, iterSrc, cursors,
                   boxes, link, walk, ret, aborted>>

\* thread t, ~const_iterator() of its local cursor at the end of the scope
ThreadDtor(t) ==
    /\ threads[t].pc = "drop"
    /\ LET r == threads[t].it.ref
           previous == refs[r].count
       IN IF no_handle_left(previous)
          THEN /\ boxes' = Impl_destroyIter(threads[t].it.m_impl, boxes)
               /\ refs' = [fetch_sub(refs, r) EXCEPT ![r].freed = TRUE]
          ELSE /\ refs' = fetch_sub(refs, r)
               /\ UNCHANGED boxes
    /\ threads' = [threads EXCEPT ![t].pc = "done", ![t].it = GoneCursor]
    /\ UNCHANGED <<containers, converterRegistry, var, iter, iterSrc, cursors,
                   link, walk, ret, aborted>>

\* SpecThreads: the program makes cursors and copies of them, then starts
\* the threads, which run interleaved.
InitThreads == InitIterable(LinkOff, WalkOff)

NextThreads ==
    \/ \E h \in Handles : Unspawned /\ Begin(h)
    \/ \E h \in Handles : Unspawned /\ End(h)
    \/ \E h, g \in Handles : Unspawned /\ CopyCtor(h, g)
    \/ \E h \in Handles : Unspawned /\ Incr(h)
    \/ \E h \in Handles : Spawn(h)
    \/ \E t \in Threads : ThreadBind(t)
    \/ \E t \in Threads : ThreadCount(t)
    \/ \E t \in Threads : ThreadDtor(t)

SpecThreads == InitThreads /\ [][NextThreads]_vars

\* ------------------------------------------------------------------ claims

\* C1 (checked under Spec): whatever containers were wrapped before, size()
\* of the SequentialIterable obtained from Variant(C) is the number of
\* elements of C.
C1_SizeIsElementCount ==
    (ret.op = "size" /\ iterSrc.data.kind = "obj")
        => ret.val = containers[iterSrc.data.a].n

\* C2 (checked under Spec): the SequentialIterable obtained from a Variant v
\* has v.data.data as its container, and the table registered for v's tag.
C2_IterableWrapsVariantData ==
    iterSrc # NoVariant
        => /\ iter._iterable = iterSrc.data
           /\ iterSrc.metaTypeId \in DOMAIN converterRegistry
           /\ [iter EXCEPT !._iterable = NullPtr] =
                [converterRegistry[iterSrc.metaTypeId] EXCEPT !._iterable = NullPtr]

\* The cursor end() / begin() of the iterable a cursor belongs to compares
\* equal to that cursor (operator== against a fresh end() / begin())
EqualsEnd(cur) ==
    LET e == Impl_moveToEnd(cur.m_impl, boxes)
    IN IteratorAPI_equal(cur.m_impl.T, cur.m_impl._iterator,
                         e.impl._iterator, e.boxes)

EqualsBegin(cur) ==
    LET e == Impl_moveToBegin(cur.m_impl, boxes)
    IN IteratorAPI_equal(cur.m_impl.T, cur.m_impl._iterator,
                         e.impl._iterator, e.boxes)

\* C3 (checked under SpecCursor): a cursor obtained from begin() and advanced
\* by k pre-increments equals end() exactly when k = size(), and before that
\* its dereference is element k of the bound container.
C3_ForwardTraversal ==
    walk.from = "begin" =>
        LET cur == cursors[walk.h]
            k == walk.n
            size == Impl_size(cur.m_impl)
        IN /\ cur.live
           /\ k <= size
           /\ EqualsEnd(cur) <=> (k = size)
           /\ k < size =>
                deref(cur, boxes) =
                    VariantData(cur.m_impl._metaType_id,
                                ElemAddr(cur.m_impl._iterable.a, k))

C3_Witness ==
    /\ walk.from = "begin"
    /\ walk.n = Impl_size(cursors[walk.h].m_impl)
    /\ walk.n >= 2
    /\ cursors[walk.h].m_impl._iterator.kind = "box"

\* C4 (checked under SpecCursor): on a non-empty iterable that can reverse
\* iterate, a cursor obtained from end() and moved by k pre-decrements equals
\* begin() exactly when k = size(), and after the k-th decrement its
\* dereference is element size()-k: the forward order reversed.
C4_ReverseTraversal ==
    (/\ walk.from = "end"
     /\ canReverseIterate(cursors[walk.h].m_impl)
     /\ Impl_size(cursors[walk.h].m_impl) > 0) =>
        LET cur == cursors[walk.h]
            k == walk.n
            size == Impl_size(cur.m_impl)
        IN /\ cur.live
           /\ k <= size
           /\ EqualsBegin(cur) <=> (k = size)
           /\ k >= 1 =>
                deref(cur, boxes) =
                    VariantData(cur.m_impl._metaType_id,
                                ElemAddr(cur.m_impl._iterable.a, size - k))

C4_Witness ==
    /\ walk.from = "end"
    /\ walk.n = Impl_size(cursors[walk.h].m_impl)
    /\ walk.n >= 2
    /\ cursors[walk.h].m_impl._iterator.kind = "box"

\* C5 (checked under Spec): canReverseIterate() is true iff the bitmask of
\* the table has the Bidirectional bit, and that is so exactly when the
\* wrapped container's native iterator category is bidirectional or
\* random-access.
C5_CanReverseIterate ==
    ret.op = "canReverseIterate" =>
        /\ ret.val <=> ((iter._iteratorCapabilities \div 2) % 2 = 1)
        /\ ret.val <=> (iterator_category(containers[iterSrc.data.a].T)
                            \in {"bidirectional", "random_access"})

C5_Witness ==
    /\ ret.op = "canReverseIterate"
    /\ ret.val = TRUE
    /\ iterator_category(containers[iterSrc.data.a].T) = "bidirectional"
    /\ iter._iterable # iterSrc.data

\* C6 (checked under SpecCursor): as<SequentialIterable>() on a Variant whose
\* tag is not in converterRegistry aborts, returns no SequentialIterable and
\* leaves the registry as it was.
C6_UnregisteredAborts ==
    [][(/\ ret'.op = "as"
        /\ Operand.metaTypeId \notin DOMAIN converterRegistry)
        => /\ aborted'
           /\ iter' = iter
           /\ iterSrc' = iterSrc
           /\ converterRegistry' = converterRegistry]_vars

C6_Witness ==
    /\ aborted
    /\ ret.op = "as"
    /\ hash_code("int") \notin DOMAIN converterRegistry

\* C7 (checked under Spec): a Variant construction whose tag is already
\* registered leaves the whole registry unchanged and does not fail; one
\* whose tag is new adds the table built from that very container; no
\* construction changes an entry that is there.
C7_RegistrationIdempotent ==
    [][ret'.op = "Variant" =>
          LET c == ret'.val
              tag == hash_code(containers[c].T)
          IN /\ ~aborted'
             /\ \A t \in DOMAIN converterRegistry :
                   /\ t \in DOMAIN converterRegistry'
                   /\ converterRegistry'[t] = converterRegistry[t]
             /\ tag \in DOMAIN converterRegistry
                   => converterRegistry' = converterRegistry
             /\ tag \notin DOMAIN converterRegistry
                   => /\ DOMAIN converterRegistry' =
                            DOMAIN converterRegistry \cup {tag}
                      /\ converterRegistry'[tag] = ImplOf(containers[c].T, c)]_vars

C7_Witness ==
    /\ ret.op = "Variant"
    /\ var.data = ObjAddr(ret.val)
    /\ converterRegistry[var.metaTypeId]._iterable # var.data

\* Both cursors exist before and after the step, and a is still bound to b
\* the way `kind` says
StillLinked(a, b, kind) ==
    /\ a # b
    /\ link = [kind |-> kind, a |-> a, b |-> b]
    /\ link' = link
    /\ cursors[a].live /\ cursors[b].live
    /\ cursors'[a].live /\ cursors'[b].live

MovedInStep(h) == Pos(cursors[h])' # Pos(cursors[h])

\* C8 (checked under SpecCopy): a cursor returned by post-increment,
\* post-decrement, + or - does not alias the cursor it was made from: no
\* later step that moves one of the two moves the other.
C8_ValueCopyDetached ==
    [][\A g, h \in Handles :
          StillLinked(g, h, "value") => ~(MovedInStep(g) /\ MovedInStep(h))]_vars

C8_Witness ==
    \E g, h \in Handles :
        /\ link = [kind |-> "value", a |-> g, b |-> h]
        /\ cursors[g].live /\ cursors[h].live
        /\ cursors[g].m_impl._iterator.kind = "box"
        /\ cursors[h].m_impl._iterator.kind = "box"
        /\ Pos(cursors[h]) - Pos(cursors[g]) >= 2

\* C9 (checked under SpecCopy): after a = b the two cursors are aliases:
\* any later step that moves one of them moves the other, to the same
\* position.
C9_AssignAliases ==
    [][\A a, b \in Handles :
          StillLinked(a, b, "assign") =>
              /\ MovedInStep(a) <=> MovedInStep(b)
              /\ Pos(cursors[a])' = Pos(cursors[b])']_vars

\* C10 (checked under SpecCopy): copy-construction raises the shared
\* counter by one, and from then on the two cursors are aliases: any later
\* step that moves one of them moves the other, to the same position.
C10_CopyCtorAliases ==
    [][\A a, b \in Handles :
          /\ (/\ ~cursors[a].live
              /\ link' = [kind |-> "copy", a |-> a, b |-> b])
                => /\ cursors'[a].ref = cursors[b].ref
                   /\ refs'[cursors[b].ref].count = refs[cursors[b].ref].count + 1
          /\ StillLinked(a, b, "copy") =>
                /\ MovedInStep(a) <=> MovedInStep(b)
                /\ Pos(cursors[a])' = Pos(cursors[b])']_vars

\* The live cursor handles whose slot is the boxed iterator k / whose ref is
\* the counter r
HandlesOfBox(k) ==
    {h \in Handles : cursors[h].live /\ cursors[h].m_impl._iterator = BoxAddr(k)}

HandlesOfRef(r) == {h \in Handles : cursors[h].live /\ cursors[h].ref = r}

\* C11 (checked under SpecCopy): once every cursor handle referencing a
\* boxed iterator has been destroyed, destroy has been invoked on that boxed
\* iterator and its counter has been deleted; so when no cursor is left, no
\* boxed iterator remains allocated.
C11_DestroyedWithLastHandle ==
    ~aborted =>
        /\ \A k \in DOMAIN boxes : HandlesOfBox(k) = {} => boxes[k].freed
        /\ \A r \in DOMAIN refs : HandlesOfRef(r) = {} => refs[r].freed

\* C12 (checked under SpecCopy): destroy is never invoked on a boxed iterator
\* that a live cursor handle still references, and never twice on the same
\* boxed iterator.
C12_NoEarlyOrDoubleDestroy ==
    \A k \in DOMAIN boxes :
        /\ boxes[k].freed => HandlesOfBox(k) = {}
        /\ ~boxes[k].again

\* one of two handles of the same boxed iterator has been destroyed, the
\* other still uses it
C12_Witness ==
    \E h, g \in Handles :
        /\ cursors[g].gone
        /\ cursors[h].live
        /\ Len(refs) = 1
        /\ cursors[h].m_impl._iterator.kind = "box"
        /\ ~boxes[cursors[h].m_impl._iterator.a].freed

\* The step is a call on cursor h that moves it backwards: --h, h--,
\* h += j with j < 0, h -= j or h - j with j > 0
BackwardCall(h) ==
    \/ Decr(h)
    \/ \E g \in Handles : PostDecr(h, g)
    \/ \E j \in Steps : j < 0 /\ PlusEq(h, j)
    \/ \E j \in Steps : j > 0 /\ MinusEq(h, j)
    \/ \E g \in Handles, j \in Steps : j > 0 /\ Minus(h, g, j)

\* C13 (checked under SpecStep): a backward call on a cursor whose table
\* lacks the Bidirectional capability aborts, and the cursor keeps its
\* position.
C13_BackwardOnForwardOnlyAborts ==
    [][\A h \in Handles :
          (/\ cursors[h].live
           /\ ~canReverseIterate(cursors[h].m_impl)
           /\ BackwardCall(h))
              => /\ aborted'
                 /\ cursors'[h] = cursors[h]
                 /\ Pos(cursors[h])' = Pos(cursors[h])]_vars

C13_Witness ==
    /\ aborted
    /\ ret.op = "minus"
    /\ ret.val < 0
    /\ ~canReverseIterate(cursors[ret.h].m_impl)
    /\ Pos(cursors[ret.h]) > 0

\* The address of the element cursor cur is positioned at
ElementOf(cur) == ElemAddr(cur.m_impl._iterable.a, Pos(cur))

\* C14 as stated (checked under SpecDeref): *h yields a Variant whose type()
\* is the element tag of h's table and whose data is the address of the
\* element at h's position, for every element type.
C14_DerefWrapsElement ==
    [][\A h \in Handles :
          Deref(h) =>
              ret'.val = VariantData(cursors[h].m_impl._metaType_id,
                                     ElementOf(cursors[h]))]_vars

\* C14 amended (checked under SpecDeref): the same for every element type
\* other than Variant; when the elements are Variants, *h yields a copy of
\* the Variant stored at h's position.
C14_DerefWrapsOrUnwraps ==
    [][\A h \in Handles :
          Deref(h) =>
              IF cursors[h].m_impl._metaType_id # hash_code("Variant")
              THEN ret'.val = VariantData(cursors[h].m_impl._metaType_id,
                                          ElementOf(cursors[h]))
              ELSE ret'.val = VariantAt(ElementOf(cursors[h]))]_vars

C14_Witness ==
    /\ ret.op = "deref"
    /\ ret.val.data.kind = "elem"
    /\ ret.val.data.b >= 1
    /\ \E h \in Handles :
          /\ cursors[h].live
          /\ cursors[h].m_impl._iterator.kind = "box"
          /\ ret.val = VariantData(cursors[h].m_impl._metaType_id,
                                   ElementOf(cursors[h]))

\* C15 (checked under Spec): right after Variant(c) the registry has an entry
\* for the tag of c's type, and as<SequentialIterable>() on a Variant made
\* from a container passes the registry lookup.
C15_CtorRegistersTag ==
    [][/\ \A c \in Containers :
             VariantCtor(c) =>
                 /\ var'.metaTypeId = hash_code(containers[c].T)
                 /\ var'.metaTypeId \in DOMAIN converterRegistry'
       /\ (AsSequentialIterable /\ Operand = var) =>
             /\ ~aborted'
             /\ iterSrc' = var]_vars

C15_Witness ==
    /\ ret.op = "as"
    /\ ~aborted
    /\ iterSrc = var
    /\ Cardinality(DOMAIN converterRegistry) >= 2

\* Cursor g is the only live handle of its counter, and the counter is 1
OwnCounter(g) ==
    /\ cursors[g].live
    /\ HandlesOfRef(cursors[g].ref) = {g}
    /\ refs[cursors[g].ref].count = 1
    /\ ~refs[cursors[g].ref].freed

\* Cursor g does not read or write the iterator cell of any other live cursor
OwnCell(g) == \A x \in Handles \ {g} : ~SharesCell(g, x)

\* C16 (checked under SpecStep): for h at position p, h++ returns a cursor
\* at p and leaves h at p+1, h-- returns one at p and leaves h at p-1,
\* h + j and h - j return cursors at p+j and p-j and leave h at p; the
\* returned cursor g has a counter of its own, which is 1.
C16_ValueCopyPositions ==
    [][\A h, g \in Handles :
          /\ (PostIncr(h, g) /\ ~aborted') =>
                /\ Pos(cursors[g])' = Pos(cursors[h])
                /\ Pos(cursors[h])' = Pos(cursors[h]) + 1
                /\ OwnCounter(g)' /\ OwnCell(g)'
          /\ (PostDecr(h, g) /\ ~aborted') =>
                /\ Pos(cursors[g])' = Pos(cursors[h])
                /\ Pos(cursors[h])' = Pos(cursors[h]) - 1
                /\ OwnCounter(g)' /\ OwnCell(g)'
          /\ \A j \in Steps :
                /\ (Plus(h, g, j) /\ ~aborted') =>
                      /\ Pos(cursors[g])' = Pos(cursors[h]) + j
                      /\ Pos(cursors[h])' = Pos(cursors[h])
                      /\ OwnCounter(g)' /\ OwnCell(g)'
                /\ (Minus(h, g, j) /\ ~aborted') =>
                      /\ Pos(cursors[g])' = Pos(cursors[h]) - j
                      /\ Pos(cursors[h])' = Pos(cursors[h])
                      /\ OwnCounter(g)' /\ OwnCell(g)']_vars

\* a boxed cursor and the value copy made of it one position apart, each
\* with a counter of 1
C16_Witness ==
    \E h, g \in Handles :
        /\ link = [kind |-> "value", a |-> g, b |-> h]
        /\ cursors[h].live /\ cursors[g].live
        /\ cursors[h].m_impl._iterator.kind = "box"
        /\ cursors[g].m_impl._iterator.kind = "box"
        /\ Pos(cursors[h]) = Pos(cursors[g]) + 1
        /\ Pos(cursors[h]) = SizeOf(cursors[h].m_impl)
        /\ refs[cursors[g].ref].count = 1
        /\ Len(boxes) = 2

\* C17 (checked under SpecCursor): begin() returns a cursor at the first
\* element and end() one at one past the last element of the iterable's
\* container; h == g is true exactly when h and g are at the same position,
\* h != g is its negation; so begin() == end() iff size() = 0.
C17_BeginEndEquality ==
    [][/\ \A h \in Handles :
             Begin(h) =>
                 /\ NativeIt(cursors[h])' = container_begin(iter._iterable.a)
                 /\ EqualsEnd(cursors[h])' <=> (Impl_size(iter) = 0)
       /\ \A h \in Handles :
             End(h) =>
                 /\ NativeIt(cursors[h])' = container_end(iter._iterable.a)
                 /\ EqualsBegin(cursors[h])' <=> (Impl_size(iter) = 0)
       /\ \A h, g \in Handles :
             /\ Eq(h, g) =>
                   (ret'.val <=> (Pos(cursors[h]) = Pos(cursors[g])))
             /\ Ne(h, g) =>
                   (ret'.val <=> (Pos(cursors[h]) # Pos(cursors[g])))]_vars

\* two boxed cursors with a cell each, at the same element, compared equal
C17_Witness ==
    /\ ret.op = "eq"
    /\ ret.val = TRUE
    /\ \E h, g \in Handles :
          /\ SameIterable(h, g)
          /\ cursors[h].m_impl._iterator.kind = "box"
          /\ cursors[h].m_impl._iterator # cursors[g].m_impl._iterator
          /\ Pos(cursors[h]) = Pos(cursors[g])
          /\ Pos(cursors[h]) >= 1

\* Forward, Forward|Bidirectional, Forward|Bidirectional|RandomAccess
ValidMasks ==
    {ForwardCapability,
     ForwardCapability + BiDirectionalCapability,
     ForwardCapability + BiDirectionalCapability + RandomAccessCapability}

\* Every registered table has one of the three masks; the iterable at hand
\* and every live cursor carry the mask of the table they were copied from
MasksValid ==
    /\ \A k \in DOMAIN converterRegistry :
          converterRegistry[k]._iteratorCapabilities \in ValidMasks
    /\ iterSrc # NoVariant =>
          iter._iteratorCapabilities =
              converterRegistry[iterSrc.metaTypeId]._iteratorCapabilities
    /\ \A h \in Handles :
          cursors[h].live =>
              cursors[h].m_impl._iteratorCapabilities =
                  converterRegistry[hash_code(cursors[h].m_impl.T)]._iteratorCapabilities

\* No step changes the mask of a registered table, of the iterable at hand
\* or of a cursor
MasksKept ==
    /\ \A k \in DOMAIN converterRegistry :
          /\ k \in DOMAIN converterRegistry'
          /\ converterRegistry'[k]._iteratorCapabilities =
                converterRegistry[k]._iteratorCapabilities
    /\ iterSrc' = iterSrc =>
          iter'._iteratorCapabilities = iter._iteratorCapabilities
    /\ \A h \in Handles :
          (cursors[h].live /\ cursors'[h].live) =>
              cursors'[h].m_impl._iteratorCapabilities =
                  cursors[h].m_impl._iteratorCapabilities

\* C18 (checked under SpecCursor): every table in converterRegistry has the
\* mask 1, 3 or 7, and the mask of a registered table, and of any iterable or
\* cursor copied from it, never changes.
C18_MasksFixed == MasksValid /\ [][MasksValid' /\ MasksKept]_vars

\* a cursor of a bidirectional, not random-access container has been moved
\* back and forth
C18_Witness ==
    \E h \in Handles :
        /\ cursors[h].live
        /\ cursors[h].m_impl._iteratorCapabilities =
              ForwardCapability + BiDirectionalCapability
        /\ walk = [h |-> h, from |-> "end", n |-> 1]
        /\ ~aborted

\* C19 (checked under SpecThreads): however the threads that each
\* copy-construct and then drop a handle of the same cursor interleave, the
\* shared counter is its value before the threads started plus one for each
\* handle a thread currently holds counted; so when all threads are done it
\* has the value it had before they started.
C19_NoLostUpdate ==
    \A t \in Threads :
        threads[t].pc # "idle" =>
            LET r == cursors[threads[t].src].ref
            IN /\ refs[r].count = threads[t].before +
                      Cardinality({u \in Threads : threads[u].pc = "drop"})
               /\ (\A u \in Threads : threads[u].pc = "done") =>
                      /\ refs[r].count = threads[t].before
                      /\ ~refs[r].freed

C19_Witness ==
    /\ \A t \in Threads : threads[t].pc = "done"
    /\ \E h \in Handles :
          /\ threads[1].src = h
          /\ cursors[h].m_impl._iterator.kind = "box"
          /\ refs[cursors[h].ref].count = threads[1].before
          /\ threads[1].before = 2

\* C20 (checked under SpecCopy): after any sequence of begin(), end(), copy
\* construction, assignment, value copies and destruction, each shared
\* counter equals the number of live cursor handles whose ref points to it.
C20_CounterIsHandleCount ==
    ~aborted =>
        \A r \in DOMAIN refs :
            ~refs[r].freed => refs[r].count = Cardinality(HandlesOfRef(r))

\* The step is a call that advances cursor h by offset 0: h += 0, h -= 0,
\* h + 0 or h - 0
ZeroOffsetCall(h) ==
    \/ PlusEq(h, 0)
    \/ MinusEq(h, 0)
    \/ \E g \in Handles : Plus(h, g, 0)
    \/ \E g \in Handles : Minus(h, g, 0)

\* C21 (checked under SpecStep): advancing by offset 0 is accepted on every
\* cursor, Forward-only ones included: the call does not abort and the
\* cursor keeps its position.
C21_ZeroOffsetAccepted ==
    [][\A h \in Handles :
          (cursors[h].live /\ ZeroOffsetCall(h))
              => /\ ~aborted'
                 /\ Pos(cursors[h])' = Pos(cursors[h])]_vars

\* The step is a call of one of the read-only operations
ReadOnlyCall ==
    \/ Size
    \/ CanReverseIterate
    \/ \E h \in Handles : Begin(h) \/ End(h) \/ Deref(h)
    \/ \E h, g \in Handles : Eq(h, g) \/ Ne(h, g)

\* C22 (checked under SpecRead): size(), canReverseIterate(), begin(), end(),
\* operator*, == and != leave converterRegistry, the SequentialIterable and
\* the position and counter of every cursor that exists already unchanged;
\* operator* registers no table.
C22_ReadOnlyFrame ==
    [][ReadOnlyCall =>
          /\ converterRegistry' = converterRegistry
          /\ iter' = iter
          /\ ~aborted'
          /\ \A h \in Handles :
                cursors[h].live =>
                    /\ cursors'[h].live
                    /\ Pos(cursors[h])' = Pos(cursors[h])
                    /\ cursors'[h].ref = cursors[h].ref
                    /\ refs'[cursors[h].ref] = refs[cursors[h].ref]]_vars

\* begin() was called while a boxed cursor stood past the first element,
\* and the iterable has been queried since
C22_Witness ==
    /\ ret.op = "canReverseIterate"
    /\ \E h, g \in Handles :
          /\ h < g
          /\ cursors[h].live /\ cursors[g].live
          /\ cursors[h].m_impl._iterator.kind = "box"
          /\ cursors[h].m_impl._iterator # cursors[g].m_impl._iterator
          /\ Pos(cursors[h]) >= 1
          /\ Pos(cursors[g]) = 0
          /\ refs[cursors[h].ref].count = 1

\* C23 (checked under SpecAssign): after a = b, for cursors of the same
\* SequentialIterable, a == b holds and b is where it was, whether a and b
\* compared equal or unequal before.
C23_AssignMakesEqual ==
    [][\A a, b \in Handles :
          Assign(a, b) =>
              /\ Impl_equal(cursors[a].m_impl, cursors[b].m_impl, boxes)'
              /\ Pos(cursors[a])' = Pos(cursors[b])'
              /\ Pos(cursors[b])' = Pos(cursors[b])]_vars

\* a was assigned from a cursor b it did not compare equal to
C23_Witness ==
    \E a, b \in Handles :
        /\ a # b
        /\ link = [kind |-> "assign", a |-> a, b |-> b]
        /\ SharesCell(a, b)
        /\ cursors[a].ref = cursors[b].ref
        /\ Pos(cursors[b]) >= 1
====
